---- MODULE Spec2Model ----
(***************************************************************************)
(* Per-connection protocol state machine of SubscriptionServer             *)
(* (src/src/server.ts).  One accepted WebSocket connection is modelled     *)
(* together with the JavaScript event loop that drives its handlers: a     *)
(* FIFO queue of promise reactions (microtasks) is drained before the next *)
(* event (message, close, timer, hook or engine completion) is handled.    *)
(***************************************************************************)
EXTENDS Integers, Sequences, FiniteSets, Bags

(* ------------------------------ bounds -------------------------------- *)
\* number of frames the client sends on the connection
MaxMsgs == 3
\* number of distinct client subscription ids
NumIds == 2
\* number of events the engine delivers to callbacks
MaxData == 1
\* number of keepalive messages the interval timer sends
MaxTicks == 2

(* ----------------------------- constants ------------------------------ *)
\* closure code used after a rejected handshake
UnexpectedCondition == 1011
\* closure code used when the sub-protocol is not supported
ProtocolError == 1002
\* the first handle the engine returns: the registry holds numbers (line 18),
\* and graphql-subscriptions numbers its subscriptions from 0
FirstHandle == 0

SubIds == 1..NumIds
\* id of a message that carries none (null / undefined)
NoId == 0
\* value of connectionSubscriptions[subId] for a key that is not present
Undefined == -1

\* what the promise of onConnect settles to; "true" stands for every value
\* other than false (an object only changes params.context, line 188)
ConnectOutcomes == {"true", "false", "error"}
\* how the call of onSubscribe ends, and what its promise settles to
OnSubscribeCalls == {"returns", "throws"}
\* "nonobject" is a value whose typeof is not 'object'; typeof null is 'object'
OnSubscribeOutcomes == {"object", "nonobject", "null", "reject"}
SubscribeOutcomes == {"handle", "rejectErrors", "rejectMessage"}
CallbackArgs == {"result", "errors", "message"}

VARIABLES
  accepted,                 \* "new" | "yes" | "no": outcome of the 'connection' handler
  options,                  \* which of onConnect, onSubscribe, keepAlive ServerOptions sets
  keepAliveTimer,           \* the setInterval of lines 88-94: [state, ticks]
  hookFailures,             \* bag of [id, outcome]: onSubscribe results that end a start
  readyState,               \* request.readyState
  closeCode,                \* code passed to request.close, 0 if never called
  initPromise,              \* connectionContext.initPromise: [state, value]
  initWaiters,              \* reactions registered with initPromise.then, in order
  microtasks,               \* promise reactions ready to run, FIFO
  connectionSubscriptions,  \* subId -> engine handle, Undefined when absent
  starts,                   \* bag of [id, pc]: SUBSCRIPTION_START reactions in flight
  engine,                   \* handle -> [subId, active, unsubs] for handles returned
  outbox,                   \* bag of messages passed to connection.send
  flushCallbacks,           \* INIT_FAIL sends whose send callback is pending
  closeTimers,              \* armed setTimeout(..., 10) callbacks
  received,                 \* frames received so far: [total, malformed, unknown (bag of ids)]
  calls,                    \* counters of hook and engine calls
  closeHandled,             \* the 'close' handler has run
  disconnectSaw,            \* registry entries left when onDisconnect was invoked
  ended                     \* ids whose SUBSCRIPTION_END ran with no start arriving since

vars == <<accepted, options, keepAliveTimer, hookFailures, readyState, closeCode, initPromise, initWaiters,
          microtasks, connectionSubscriptions, starts, engine, outbox,
          flushCallbacks, closeTimers, received, calls, closeHandled,
          disconnectSaw, ended>>

(* ----------------------------- messages ------------------------------- *)
Msg(type, id, payload) == [type |-> type, id |-> id, payload |-> payload]

\* connection.send(JSON.stringify(message))
Send(box, msg) == box (+) SetToBag({msg})

\* number of messages of a type passed to connection.send
RECURSIVE SumCopies(_, _)
SumCopies(box, S) ==
  IF S = {} THEN 0
  ELSE LET x == CHOOSE y \in S : TRUE
       IN CopiesIn(x, box) + SumCopies(box, S \ {x})

CountIn(box, type) == SumCopies(box, {m \in BagToSet(box) : m.type = type})
CountFor(box, type, id) ==
  SumCopies(box, {m \in BagToSet(box) : m.type = type /\ m.id = id})

Task(kind, id) == [kind |-> kind, id |-> id]

\* a SUBSCRIPTION_START reaction for id at position pc of lines 183-242
At(id, pc) == [id |-> id, pc |-> pc]
Move(bag, id, from, to) == (bag (-) SetToBag({At(id, from)})) (+) SetToBag({At(id, to)})
Finish(bag, id, from) == bag (-) SetToBag({At(id, from)})

(* ------------------------------- Init --------------------------------- *)
\* the state of a connection the server is about to accept; keepAlive ranges
\* over the given settings of ServerOptions.keepAlive (set or unset)
InitWith(keepAlives) ==
  /\ accepted = "new"
  /\ options \in [onConnect : BOOLEAN, onSubscribe : BOOLEAN, keepAlive : keepAlives]
  /\ keepAliveTimer = [state |-> "none", ticks |-> 0]
  /\ hookFailures = EmptyBag
  /\ readyState = "OPEN"
  /\ closeCode = 0
  /\ initPromise = [state |-> "pending", value |-> "none"]
  /\ initWaiters = <<>>
  /\ microtasks = <<>>
  /\ connectionSubscriptions = [s \in SubIds |-> Undefined]
  /\ starts = EmptyBag
  /\ engine = <<>>
  /\ outbox = EmptyBag
  /\ flushCallbacks = 0
  /\ closeTimers = 0
  /\ received = [total |-> 0, malformed |-> 0, unknown |-> EmptyBag]
  /\ calls = [onConnect |-> 0, onSubscribe |-> 0, subscribe |-> 0,
              onDisconnect |-> 0, close |-> 0]
  /\ closeHandled = FALSE
  /\ disconnectSaw = Undefined
  /\ ended = {}

\* a server configured without keepAlive: no interval timer exists
Init == InitWith({FALSE})

(* ------------------------- helpers of the code ------------------------ *)
\* line 201: if (connectionSubscriptions[subId])
Truthy(h) == h # Undefined /\ h # 0

\* line 250: typeof connectionSubscriptions[subId] !== 'undefined'
Defined(h) == h # Undefined

\* position of handle h in the engine's table
Ix(h) == h - FirstHandle + 1

\* the handle the engine's next successful subscribe returns
NextHandle == FirstHandle + Len(engine)

\* lines 111-117: subscriptionManager.unsubscribe(handleId)
Unsubscribe(eng, h) ==
  [eng EXCEPT ![Ix(h)].active = FALSE, ![Ix(h)].unsubs = @ + 1]

\* lines 121-124: unsubscribe every key of the registry, in key order
Keys(subs) == {id \in SubIds : subs[id] # Undefined}

\* mutation of Delete: the registry entry is kept
DeleteNothing(subs, id) == subs

\* lines 123, 203, 252: delete connectionSubscriptions[subId]
Delete(subs, id) == [subs EXCEPT ![id] = Undefined]

\* lines 140-142: the answer to a frame that JSON.parse rejects
ParseFail == Msg("subscription_fail", NoId, "parse error message")

\* mutation of DecodeFailure: the parse error is swallowed
DecodeFailureSilent(box) == box

DecodeFailure(box) == Send(box, ParseFail)

\* mutation of InvalidType: the answer does not carry the frame's id
InvalidTypeNoId(box, id) ==
  Send(box, Msg("subscription_fail", NoId, "Invalid message type!"))

\* lines 257-262: the answer to a frame of unrecognized type
InvalidType(box, id) == Send(box, Msg("subscription_fail", id, "Invalid message type!"))

\* a promise reaction may run: the promise is fulfilled
Fulfilled(p) == p.state = "fulfilled"

\* mutation of InitResultMessage: the test result === false is missing
InitResultMessageNoFalse(p) ==
  IF p.state = "rejected" THEN Msg("init_fail", NoId, "connect error message")
  ELSE Msg("init_success", NoId, "none")

\* lines 161-175: the message the INIT chain computes from the settled value
InitResultMessage(p) ==
  IF p.state = "rejected" THEN Msg("init_fail", NoId, "connect error message")
  ELSE IF p.value = "false" THEN Msg("init_fail", NoId, "Prohibited connection!")
  ELSE Msg("init_success", NoId, "none")

\* mutation of ThenWaiters: a new reaction is put before the registered ones
ThenWaitersFirst(p, waiters, task) ==
  IF p.state \in {"pending", "locked"} THEN <<task>> \o waiters ELSE waiters

\* initPromise.then(reaction): queue the reaction according to the promise state.
\* Reactions of SUBSCRIPTION_START / SUBSCRIPTION_END have no rejection handler;
\* the INIT chain has one (.catch), so it also runs on rejection.
ThenWaiters(p, waiters, task) ==
  IF p.state \in {"pending", "locked"} THEN Append(waiters, task) ELSE waiters

\* mutation of ThenMicrotasks: the reaction runs without waiting for the promise
ThenMicrotasksNoWait(p, queue, task) == Append(queue, task)

ThenMicrotasks(p, queue, task) ==
  IF Fulfilled(p) \/ (p.state = "rejected" /\ task.kind = "init")
  THEN Append(queue, task) ELSE queue

\* reactions released when the promise settles
Released(p, waiters) ==
  IF Fulfilled(p) THEN waiters
  ELSE SelectSeq(waiters, LAMBDA t : t.kind = "init")

(* ------------------------- 'connection' handler ----------------------- *)
\* lines 75-108
Connection(protocolOk) ==
  /\ accepted = "new"
  /\ IF protocolOk
     THEN /\ accepted' = "yes"
          /\ keepAliveTimer' = [keepAliveTimer EXCEPT !.state =
                                   IF options.keepAlive THEN "armed" ELSE "none"]
          /\ UNCHANGED <<readyState, closeCode, calls>>
     ELSE /\ accepted' = "no"
          /\ UNCHANGED keepAliveTimer
          /\ readyState' = "CLOSING"
          /\ closeCode' = ProtocolError
          /\ calls' = [calls EXCEPT !.close = @ + 1]
  /\ UNCHANGED <<options, hookFailures, initPromise, initWaiters, microtasks,
                 connectionSubscriptions, starts, engine, outbox,
                 flushCallbacks, closeTimers, received, closeHandled,
                 disconnectSaw, ended>>

\* a frame can be dispatched to the 'message' handler
CanReceive ==
  /\ accepted = "yes"
  /\ readyState = "OPEN"
  /\ microtasks = <<>>
  /\ received.total < MaxMsgs

(* --------------------------- onMessage -------------------------------- *)
\* lines 138-143: JSON.parse throws
ReceiveMalformed ==
  /\ CanReceive
  /\ received' = [received EXCEPT !.total = @ + 1, !.malformed = @ + 1]
  /\ outbox' = DecodeFailure(outbox)
  /\ UNCHANGED <<accepted, options, keepAliveTimer, hookFailures, readyState, closeCode, initPromise,
                 initWaiters, microtasks, connectionSubscriptions, starts,
                 engine, flushCallbacks, closeTimers, calls, closeHandled,
                 disconnectSaw, ended>>

\* lines 257-262: default case
ReceiveUnknown(id) ==
  /\ CanReceive
  /\ received' = [received EXCEPT !.total = @ + 1,
                                   !.unknown = @ (+) SetToBag({id})]
  /\ outbox' = InvalidType(outbox, id)
  /\ UNCHANGED <<accepted, options, keepAliveTimer, hookFailures, readyState, closeCode, initPromise,
                 initWaiters, microtasks, connectionSubscriptions, starts,
                 engine, flushCallbacks, closeTimers, calls, closeHandled,
                 disconnectSaw, ended>>

\* lines 147-180: case INIT
ReceiveInit ==
  /\ CanReceive
  /\ received' = [received EXCEPT !.total = @ + 1]
  /\ calls' = [calls EXCEPT !.onConnect = IF options.onConnect THEN @ + 1 ELSE @]
  /\ LET resolved ==   \* line 159: onInitResolve(onConnectPromise), effective once
           IF initPromise.state # "pending" THEN initPromise
           ELSE IF options.onConnect THEN [state |-> "locked", value |-> "none"]
           ELSE [state |-> "fulfilled", value |-> "true"]
         t == Task("init", NoId)
     IN /\ initPromise' = resolved
        /\ IF initPromise.state = "pending" /\ resolved.state = "fulfilled"
           THEN /\ microtasks' = Append(initWaiters, t)
                /\ initWaiters' = <<>>
           ELSE /\ microtasks' = ThenMicrotasks(resolved, microtasks, t)
                /\ initWaiters' = ThenWaiters(resolved, initWaiters, t)
  /\ UNCHANGED <<accepted, options, keepAliveTimer, hookFailures, readyState, closeCode,
                 connectionSubscriptions, starts, engine, outbox,
                 flushCallbacks, closeTimers, closeHandled, disconnectSaw, ended>>

\* lines 182-183: case SUBSCRIPTION_START registers its reaction
ReceiveStart(id) ==
  /\ CanReceive
  /\ received' = [received EXCEPT !.total = @ + 1]
  /\ starts' = starts (+) SetToBag({At(id, "waitInit")})
  /\ LET t == Task("start", id)
     IN /\ microtasks' = ThenMicrotasks(initPromise, microtasks, t)
        /\ initWaiters' = ThenWaiters(initPromise, initWaiters, t)
  /\ ended' = ended \ {id}
  /\ UNCHANGED <<accepted, options, keepAliveTimer, hookFailures, readyState, closeCode, initPromise,
                 connectionSubscriptions, engine, outbox, flushCallbacks,
                 closeTimers, calls, closeHandled, disconnectSaw>>

\* lines 246-247: case SUBSCRIPTION_END registers its reaction
ReceiveEnd(id) ==
  /\ CanReceive
  /\ received' = [received EXCEPT !.total = @ + 1]
  /\ LET t == Task("end", id)
     IN /\ microtasks' = ThenMicrotasks(initPromise, microtasks, t)
        /\ initWaiters' = ThenWaiters(initPromise, initWaiters, t)
  /\ UNCHANGED <<accepted, options, keepAliveTimer, hookFailures, readyState, closeCode, initPromise,
                 connectionSubscriptions, starts, engine, outbox,
                 flushCallbacks, closeTimers, calls, closeHandled,
                 disconnectSaw, ended>>

\* the promise returned by onConnect settles (lines 150-159)
ConnectSettles(outcome) ==
  /\ microtasks = <<>>
  /\ initPromise.state = "locked"
  /\ LET settled == IF outcome = "error"
                    THEN [state |-> "rejected", value |-> "error"]
                    ELSE [state |-> "fulfilled", value |-> outcome]
     IN /\ initPromise' = settled
        /\ microtasks' = Released(settled, initWaiters)
  /\ initWaiters' = <<>>
  /\ UNCHANGED <<accepted, options, keepAliveTimer, hookFailures, readyState, closeCode,
                 connectionSubscriptions, starts, engine, outbox,
                 flushCallbacks, closeTimers, received, calls, closeHandled,
                 disconnectSaw, ended>>

(* ------------------------ promise reactions --------------------------- *)
\* lines 161-178 and 296-310: the INIT chain sends its result; the send
\* callback of an INIT_FAIL is left pending
RunInitResult ==
  /\ microtasks # <<>>
  /\ Head(microtasks).kind = "init"
  /\ microtasks' = Tail(microtasks)
  /\ LET msg == InitResultMessage(initPromise)
     IN /\ outbox' = Send(outbox, msg)
        /\ flushCallbacks' = IF msg.type = "init_fail"
                             THEN flushCallbacks + 1 ELSE flushCallbacks
  /\ UNCHANGED <<accepted, options, keepAliveTimer, hookFailures, readyState, closeCode, initPromise,
                 initWaiters, connectionSubscriptions, starts, engine,
                 closeTimers, received, calls, closeHandled, disconnectSaw, ended>>

\* lines 183-206: the reaction of a SUBSCRIPTION_START up to promisedParams.then.
\* The call of onSubscribe (line 196) either returns (a value or a promise) or
\* throws; a throw ends the reaction there, outside the chain of lines 206-242.
RunStartHandler(call) ==
  /\ microtasks # <<>>
  /\ Head(microtasks).kind = "start"
  /\ call = "throws" => options.onSubscribe
  /\ LET id == Head(microtasks).id
         h == connectionSubscriptions[id]
     IN /\ calls' = [calls EXCEPT !.onSubscribe =
                        IF options.onSubscribe THEN @ + 1 ELSE @]
        /\ IF call = "throws"
           THEN /\ starts' = Finish(starts, id, "waitInit")
                /\ microtasks' = Tail(microtasks)
                /\ UNCHANGED <<engine, connectionSubscriptions>>
           ELSE /\ IF Truthy(h)
                   THEN /\ engine' = Unsubscribe(engine, h)
                        /\ connectionSubscriptions' =
                              Delete(connectionSubscriptions, id)
                   ELSE UNCHANGED <<engine, connectionSubscriptions>>
                /\ IF options.onSubscribe
                   THEN /\ starts' = Move(starts, id, "waitInit", "waitHook")
                        /\ microtasks' = Tail(microtasks)
                   ELSE /\ starts' = Move(starts, id, "waitInit", "params")
                        /\ microtasks' =
                              Append(Tail(microtasks), Task("params", id))
  /\ UNCHANGED <<accepted, options, keepAliveTimer, hookFailures, readyState, closeCode, initPromise,
                 initWaiters, outbox, flushCallbacks, closeTimers, received,
                 closeHandled, disconnectSaw, ended>>

\* lines 206-231 with the baseParams object (no onSubscribe hook): the callback
\* is created and subscriptionManager.subscribe is called
RunParams ==
  /\ microtasks # <<>>
  /\ Head(microtasks).kind = "params"
  /\ microtasks' = Tail(microtasks)
  /\ starts' = Move(starts, Head(microtasks).id, "params", "waitSubscribe")
  /\ calls' = [calls EXCEPT !.subscribe = @ + 1]
  /\ UNCHANGED <<accepted, options, keepAliveTimer, hookFailures, readyState, closeCode, initPromise,
                 initWaiters, connectionSubscriptions, engine, outbox,
                 flushCallbacks, closeTimers, received, closeHandled,
                 disconnectSaw, ended>>

\* lines 247-254: the reaction of a SUBSCRIPTION_END
RunEndHandler ==
  /\ microtasks # <<>>
  /\ Head(microtasks).kind = "end"
  /\ microtasks' = Tail(microtasks)
  /\ LET id == Head(microtasks).id
         h == connectionSubscriptions[id]
     IN /\ IF Defined(h)
           THEN /\ engine' = Unsubscribe(engine, h)
                /\ connectionSubscriptions' = Delete(connectionSubscriptions, id)
           ELSE UNCHANGED <<engine, connectionSubscriptions>>
        /\ ended' = ended \cup {id}
  /\ UNCHANGED <<accepted, options, keepAliveTimer, hookFailures, readyState, closeCode, initPromise,
                 initWaiters, starts, outbox, flushCallbacks, closeTimers,
                 received, calls, closeHandled, disconnectSaw>>

(* --------------------- hook and engine completions -------------------- *)
InvalidParams == "Invalid params returned from onSubscribe! return values must be an object!"

\* mutation of HookRejection: the rejection of onSubscribe is swallowed
HookRejectionSilent(box, id) == box

\* lines 235-241: the catch handler answers a rejection of onSubscribe, whose
\* reason is an Error that carries a message
HookRejection(box, id) ==
  Send(box, Msg("subscription_fail", id, "hook error message"))

\* mutation of PassesTypeCheck: the test of line 207 is missing
PassesTypeCheckAlways(outcome) == TRUE

\* line 207: typeof params !== 'object' is false (null passes, typeof null
\* being 'object')
PassesTypeCheck(outcome) == outcome # "nonobject"

\* lines 206-231 and 235-241: the promise of onSubscribe settles.  hookFailures
\* records every result of the hook that is not an object.
OnSubscribeSettles(id, outcome) ==
  /\ microtasks = <<>>
  /\ BagIn(At(id, "waitHook"), starts)
  /\ hookFailures' = IF outcome = "object" THEN hookFailures
                     ELSE hookFailures (+) SetToBag({[id |-> id, outcome |-> outcome]})
  /\ IF outcome = "reject"
     THEN /\ starts' = Finish(starts, id, "waitHook")
          /\ outbox' = HookRejection(outbox, id)
          /\ UNCHANGED calls
     ELSE IF ~PassesTypeCheck(outcome)
     THEN \* line 209 sends the error, line 215 throws it, line 239 sends it again
          /\ starts' = Finish(starts, id, "waitHook")
          /\ outbox' = Send(Send(outbox,
                                 Msg("subscription_fail", id, InvalidParams)),
                            Msg("subscription_fail", id, InvalidParams))
          /\ UNCHANGED calls
     ELSE IF outcome = "null"
     THEN \* line 221: the assignment params.callback = ... throws a TypeError,
          \* which line 239 reports
          /\ starts' = Finish(starts, id, "waitHook")
          /\ outbox' = Send(outbox,
                            Msg("subscription_fail", id, "type error message"))
          /\ UNCHANGED calls
     ELSE \* lines 221-231: the callback is created and subscribe is called
          /\ starts' = Move(starts, id, "waitHook", "waitSubscribe")
          /\ calls' = [calls EXCEPT !.subscribe = @ + 1]
          /\ UNCHANGED outbox
  /\ UNCHANGED <<accepted, options, keepAliveTimer, readyState, closeCode,
                 initPromise, initWaiters, microtasks, connectionSubscriptions,
                 engine, flushCallbacks, closeTimers, received, closeHandled,
                 disconnectSaw, ended>>

\* lines 232-241: the promise of subscriptionManager.subscribe settles
SubscribeSettles(id, outcome) ==
  /\ microtasks = <<>>
  /\ BagIn(At(id, "waitSubscribe"), starts)
  /\    CASE outcome = "handle" ->
               /\ starts' = Finish(starts, id, "waitSubscribe")
               /\ connectionSubscriptions' =
                    [connectionSubscriptions EXCEPT ![id] = NextHandle]
               /\ engine' = Append(engine,
                                   [subId |-> id, active |-> TRUE, unsubs |-> 0])
               /\ outbox' = Send(outbox, Msg("subscription_success", id, "none"))
          [] outcome = "rejectErrors" ->
               /\ starts' = Finish(starts, id, "waitSubscribe")
               /\ outbox' = Send(outbox,
                                 Msg("subscription_fail", id, "engine errors"))
               /\ UNCHANGED <<connectionSubscriptions, engine>>
          [] outcome = "rejectMessage" ->
               /\ starts' = Finish(starts, id, "waitSubscribe")
               /\ outbox' = Send(outbox,
                                 Msg("subscription_fail", id, "engine error message"))
               /\ UNCHANGED <<connectionSubscriptions, engine>>
  /\ UNCHANGED <<accepted, options, keepAliveTimer, hookFailures, readyState, closeCode, initPromise,
                 initWaiters, microtasks, flushCallbacks, closeTimers, received,
                 calls, closeHandled, disconnectSaw, ended>>

\* lines 222-228: the payload the callback forwards: the result as it is, or an
\* errors list (error.errors, or the wrapped error.message)
CallbackPayload(arg) == IF arg = "result" THEN "result" ELSE "errors"

\* lines 221-229: the engine invokes the callback of an active subscription
Deliver(h, arg) ==
  /\ microtasks = <<>>
  /\ Ix(h) \in 1..Len(engine)
  /\ engine[Ix(h)].active
  /\ CountIn(outbox, "subscription_data") < MaxData
  /\ outbox' = Send(outbox, Msg("subscription_data", engine[Ix(h)].subId,
                             CallbackPayload(arg)))
  /\ UNCHANGED <<accepted, options, keepAliveTimer, hookFailures, readyState, closeCode, initPromise,
                 initWaiters, microtasks, connectionSubscriptions, starts,
                 engine, flushCallbacks, closeTimers, received, calls,
                 closeHandled, disconnectSaw, ended>>

(* ------------------------------ closing ------------------------------- *)
\* lines 121-124: the forEach over Object.keys(connectionSubscriptions)
RECURSIVE OnCloseEach(_, _, _)
OnCloseEach(eng, subs, ids) ==
  IF ids = {} THEN [engine |-> eng, subs |-> subs]
  ELSE LET id == CHOOSE i \in ids : \A j \in ids : i <= j
       IN OnCloseEach(Unsubscribe(eng, subs[id]), Delete(subs, id), ids \ {id})

\* mutation of OnClose: the forEach stops after the first key
OnCloseFirstKey(eng, subs) ==
  LET ks == Keys(subs)
  IN OnCloseEach(eng, subs, {i \in ks : \A j \in ks : i <= j})

\* lines 119-126: what onClose leaves of the engine and of the registry
OnClose(eng, subs) == OnCloseEach(eng, subs, Keys(subs))

\* lines 101-107: the 'close' event of the connection; onDisconnect tells
\* whether ServerOptions configures that hook, which only this handler reads
CloseEvent(onDisconnect) ==
  /\ microtasks = <<>>
  /\ accepted = "yes"
  /\ ~closeHandled
  /\ closeHandled' = TRUE
  /\ readyState' = "CLOSED"
  /\ LET after == OnClose(engine, connectionSubscriptions)
     IN /\ engine' = after.engine
        /\ connectionSubscriptions' = after.subs
        /\ IF onDisconnect
           THEN /\ calls' = [calls EXCEPT !.onDisconnect = @ + 1]
                /\ disconnectSaw' = Cardinality(Keys(after.subs))
           ELSE UNCHANGED <<calls, disconnectSaw>>
  /\ UNCHANGED <<accepted, options, keepAliveTimer, hookFailures, closeCode, initPromise, initWaiters,
                 microtasks, starts, outbox, flushCallbacks, closeTimers,
                 received, ended>>

\* lines 297-308: the callback of connection.send for an INIT_FAIL arms the timer
SendCallback ==
  /\ microtasks = <<>>
  /\ flushCallbacks > 0
  /\ flushCallbacks' = flushCallbacks - 1
  /\ closeTimers' = closeTimers + 1
  /\ UNCHANGED <<accepted, options, keepAliveTimer, hookFailures, readyState, closeCode, initPromise,
                 initWaiters, microtasks, connectionSubscriptions, starts,
                 engine, outbox, received, calls, closeHandled, disconnectSaw,
                 ended>>

\* lines 304-307: connection.close(1011); connection.terminate()
CloseTimer ==
  /\ microtasks = <<>>
  /\ closeTimers > 0
  /\ closeTimers' = closeTimers - 1
  /\ calls' = [calls EXCEPT !.close = @ + 1]
  /\ IF readyState = "OPEN"
     THEN /\ readyState' = "CLOSING"
          /\ closeCode' = UnexpectedCondition
     ELSE UNCHANGED <<readyState, closeCode>>
  /\ UNCHANGED <<accepted, options, keepAliveTimer, hookFailures, initPromise, initWaiters, microtasks,
                 connectionSubscriptions, starts, engine, outbox,
                 flushCallbacks, received, closeHandled, disconnectSaw, ended>>

(* ----------------------------- keepalive ------------------------------ *)
KeepAlive == Msg("keepalive", NoId, "none")

\* mutation of KeepAliveSends: the timer does not look at readyState
KeepAliveSendsAlways(state) == TRUE

\* line 89: request.readyState === WebSocket.OPEN
KeepAliveSends(state) == state = "OPEN"

\* lines 88-94 and 312-318: the interval timer fires
KeepAliveTick ==
  /\ microtasks = <<>>
  /\ keepAliveTimer.state = "armed"
  /\ IF KeepAliveSends(readyState)
     THEN /\ CopiesIn(KeepAlive, outbox) < MaxTicks
          /\ outbox' = Send(outbox, KeepAlive)
          /\ keepAliveTimer' = [keepAliveTimer EXCEPT !.ticks = @ + 1]
     ELSE /\ keepAliveTimer' = [state |-> "cleared",
                                ticks |-> keepAliveTimer.ticks + 1]
          /\ UNCHANGED outbox
  /\ UNCHANGED <<accepted, options, hookFailures, readyState, closeCode,
                 initPromise, initWaiters, microtasks, connectionSubscriptions,
                 starts, engine, flushCallbacks, closeTimers, received, calls,
                 closeHandled, disconnectSaw, ended>>

(* --------------------------- specification ---------------------------- *)
Next ==
  \/ \E ok \in BOOLEAN : Connection(ok)
  \/ ReceiveMalformed
  \/ \E id \in SubIds \cup {NoId} : ReceiveUnknown(id)
  \/ ReceiveInit
  \/ \E id \in SubIds : ReceiveStart(id)
  \/ \E id \in SubIds : ReceiveEnd(id)
  \/ \E o \in ConnectOutcomes : ConnectSettles(o)
  \/ RunInitResult
  \/ \E c \in OnSubscribeCalls : RunStartHandler(c)
  \/ RunParams
  \/ RunEndHandler
  \/ \E id \in SubIds, o \in OnSubscribeOutcomes : OnSubscribeSettles(id, o)
  \/ \E id \in SubIds, o \in SubscribeOutcomes : SubscribeSettles(id, o)
  \/ \E h \in FirstHandle..(FirstHandle + MaxMsgs), a \in CallbackArgs : Deliver(h, a)
  \/ \E hook \in BOOLEAN : CloseEvent(hook)
  \/ SendCallback
  \/ CloseTimer

Spec == Init /\ [][Next]_vars

\* the reaction at the head of the queue runs
RunMicrotask ==
  \/ RunInitResult
  \/ \E c \in OnSubscribeCalls : RunStartHandler(c)
  \/ RunParams
  \/ RunEndHandler

\* The event loop runs every queued promise reaction, every send callback and
\* every armed timer.
LiveSpec ==
  /\ Spec
  /\ WF_vars(RunMicrotask)
  /\ WF_vars(SendCallback)
  /\ WF_vars(CloseTimer)

\* A server configured with or without keepAlive: the lifetime of a connection
\* (accept, handshake, forced close, close event) and its interval timer.  The
\* subscription frames, which touch neither readyState nor the timer, are not sent.
KeepAliveInit == InitWith(BOOLEAN)

KeepAliveNext ==
  \/ \E ok \in BOOLEAN : Connection(ok)
  \/ ReceiveMalformed
  \/ \E id \in SubIds \cup {NoId} : ReceiveUnknown(id)
  \/ ReceiveInit
  \/ \E o \in ConnectOutcomes : ConnectSettles(o)
  \/ RunInitResult
  \/ \E hook \in BOOLEAN : CloseEvent(hook)
  \/ SendCallback
  \/ CloseTimer
  \/ KeepAliveTick

KeepAliveSpec == KeepAliveInit /\ [][KeepAliveNext]_vars

\* An accepted connection whose handshake (one INIT, no onConnect hook) has
\* been acknowledged; frames are counted from the acknowledgement on, so that
\* MaxMsgs subscription frames follow the handshake.
ReadyInit ==
  /\ accepted = "yes"
  /\ options \in [onConnect : {FALSE}, onSubscribe : BOOLEAN, keepAlive : {FALSE}]
  /\ keepAliveTimer = [state |-> "none", ticks |-> 0]
  /\ hookFailures = EmptyBag
  /\ readyState = "OPEN"
  /\ closeCode = 0
  /\ initPromise = [state |-> "fulfilled", value |-> "true"]
  /\ initWaiters = <<>>
  /\ microtasks = <<>>
  /\ connectionSubscriptions = [s \in SubIds |-> Undefined]
  /\ starts = EmptyBag
  /\ engine = <<>>
  /\ outbox = SetToBag({Msg("init_success", NoId, "none")})
  /\ flushCallbacks = 0
  /\ closeTimers = 0
  /\ received = [total |-> 0, malformed |-> 0, unknown |-> EmptyBag]
  /\ calls = [onConnect |-> 0, onSubscribe |-> 0, subscribe |-> 0,
              onDisconnect |-> 0, close |-> 0]
  /\ closeHandled = FALSE
  /\ disconnectSaw = Undefined
  /\ ended = {}

ReadyNext ==
  \/ \E id \in SubIds : ReceiveStart(id)
  \/ \E id \in SubIds : ReceiveEnd(id)
  \/ \E c \in OnSubscribeCalls : RunStartHandler(c)
  \/ RunParams
  \/ RunEndHandler
  \/ \E id \in SubIds, o \in OnSubscribeOutcomes : OnSubscribeSettles(id, o)
  \/ \E id \in SubIds, o \in SubscribeOutcomes : SubscribeSettles(id, o)
  \/ \E h \in FirstHandle..(FirstHandle + MaxMsgs), a \in CallbackArgs : Deliver(h, a)
  \/ \E hook \in BOOLEAN : CloseEvent(hook)

ReadySpec == ReadyInit /\ [][ReadyNext]_vars

(* ----------------------- observations on a state --------------------- *)
\* number of subscriptionManager.unsubscribe calls made so far
RECURSIVE TotalUnsubs(_)
TotalUnsubs(eng) ==
  IF eng = <<>> THEN 0 ELSE Head(eng).unsubs + TotalUnsubs(Tail(eng))

Handles == {FirstHandle + i - 1 : i \in 1..Len(engine)}

\* the handshake was rejected: onConnect returned false, threw or rejected
Rejected ==
  \/ initPromise.state = "rejected"
  \/ initPromise.state = "fulfilled" /\ initPromise.value = "false"

\* subscription-error texts that only the handling of a SUBSCRIPTION_START produces
StartFailTexts ==
  {InvalidParams, "hook error message", "type error message", "engine errors",
   "engine error message"}

(* ------------------------------ claims -------------------------------- *)
\* C1: while the handshake's settled value is not resolved, no SUBSCRIPTION_START
\* or SUBSCRIPTION_END has had any effect: onSubscribe was not called, the engine
\* was neither asked to subscribe nor to unsubscribe, the registry is empty, and
\* no subscription-success or start-related subscription-error was sent; every
\* start received so far is still waiting on the handshake.
C1_NoEffectBeforeHandshake ==
  ~Fulfilled(initPromise) =>
    /\ calls.onSubscribe = 0
    /\ calls.subscribe = 0
    /\ engine = <<>>
    /\ Keys(connectionSubscriptions) = {}
    /\ CountIn(outbox, "subscription_success") = 0
    /\ \A m \in BagToSet(outbox) :
          m.type = "subscription_fail" => m.payload \notin StartFailTexts
    /\ \A r \in BagToSet(starts) : r.pc = "waitInit"

\* C1 witness: a start and an end are queued behind a connect hook that has not
\* completed, one of them received before the INIT
C1_Witness ==
  /\ initPromise.state = "locked"
  /\ \E i, j, k \in 1..Len(initWaiters) :
        /\ i < j
        /\ initWaiters[i].kind \in {"start", "end"}
        /\ initWaiters[j].kind = "init"
        /\ initWaiters[k].kind = "start"

\* C2: on a connection whose handshake is rejected (false, throw or rejection)
\* the engine is never asked to subscribe, no handle is installed and no
\* subscription-success is sent.
C2_NoSubscriptionWhenRejected ==
  Rejected =>
    /\ calls.subscribe = 0
    /\ engine = <<>>
    /\ Keys(connectionSubscriptions) = {}
    /\ CountIn(outbox, "subscription_success") = 0

\* C2 is violated when onConnect returns false: the promise is fulfilled with
\* false and the start reactions run.

\* C3: a forced close of an accepted connection is always the consequence of a
\* handshake-error already passed to send (each close call, armed timer or pending
\* send callback stems from one INIT_FAIL), it uses code 1011, a handshake-error
\* is only sent on a rejected handshake and carries the rejection's text; and
\* a rejected handshake leads to a handshake-error, which leads to the forced close.
C3_Safety ==
  /\ accepted = "yes" =>
        /\ calls.close + closeTimers + flushCallbacks = CountIn(outbox, "init_fail")
        /\ closeCode \in {0, UnexpectedCondition}
        /\ closeCode = UnexpectedCondition => calls.close > 0
  /\ accepted = "no" => CountIn(outbox, "init_fail") = 0
  /\ \A m \in BagToSet(outbox) :
        m.type = "init_fail" =>
          /\ Rejected
          /\ m.payload = IF initPromise.state = "rejected"
                         THEN "connect error message"
                         ELSE "Prohibited connection!"

C3_FailThenClose ==
  /\ []C3_Safety
  /\ Rejected ~> (CountIn(outbox, "init_fail") > 0)
  /\ (CountIn(outbox, "init_fail") > 0) ~> (calls.close > 0)

\* C3 witness: the handshake was rejected, the handshake-error was sent and the
\* open connection was then force-closed with 1011
C3_Witness ==
  /\ Rejected
  /\ CountIn(outbox, "init_fail") = 1
  /\ calls.close = 1
  /\ closeCode = UnexpectedCondition
  /\ readyState # "OPEN"

\* C4: at most one handshake response (ack or error) is sent on a connection,
\* however many INIT frames arrive.
C4_OneHandshakeResponse ==
  CountIn(outbox, "init_success") + CountIn(outbox, "init_fail") <= 1

\* a reaction of a SUBSCRIPTION_START for id goes on to its promisedParams chain
Proceeds(id) ==
  CopiesIn(At(id, "waitHook"), starts') + CopiesIn(At(id, "params"), starts')
    > CopiesIn(At(id, "waitHook"), starts) + CopiesIn(At(id, "params"), starts)

\* C5: when the reaction of a SUBSCRIPTION_START runs (onSubscribe, if any,
\* having returned) for an id that has a registry entry, that handle is
\* unsubscribed (exactly one unsubscribe call for it) and removed in that step,
\* before the subscribe call of the new start.
C5_ReplaceBeforeSubscribe ==
  [][ (/\ microtasks # <<>>
       /\ Head(microtasks).kind = "start"
       /\ Proceeds(Head(microtasks).id)
       /\ connectionSubscriptions[Head(microtasks).id] # Undefined)
      => LET id == Head(microtasks).id
             h == connectionSubscriptions[id]
         IN /\ ~engine'[Ix(h)].active
            /\ engine'[Ix(h)].unsubs = 1
            /\ connectionSubscriptions'[id] = Undefined
            /\ calls'.subscribe = calls.subscribe ]_vars

\* C6: the 'close' handler makes exactly N unsubscribe calls for a registry of N
\* entries, one for each registered handle, the handles being distinct; it leaves
\* the registry empty, and onDisconnect, if configured, is invoked once, after
\* the unsubscribes (it finds no entry left).
C6_CloseDrainsRegistry ==
  [][ (~closeHandled /\ closeHandled')
      => LET ks == Keys(connectionSubscriptions)
         IN /\ TotalUnsubs(engine') = TotalUnsubs(engine) + Cardinality(ks)
            /\ \A id \in ks :
                  LET h == connectionSubscriptions[id]
                  IN /\ engine[Ix(h)].active
                     /\ ~engine'[Ix(h)].active
                     /\ engine'[Ix(h)].unsubs = engine[Ix(h)].unsubs + 1
            /\ \A a, b \in ks :
                  a # b => connectionSubscriptions[a] # connectionSubscriptions[b]
            /\ Keys(connectionSubscriptions') = {}
            /\ IF calls'.onDisconnect # calls.onDisconnect
               THEN calls'.onDisconnect = 1 /\ disconnectSaw' = 0
               ELSE disconnectSaw' = Undefined ]_vars

\* C6 witness: the close handler has drained a registry of two entries and
\* invoked onDisconnect
C6_Witness ==
  /\ closeHandled
  /\ disconnectSaw = 0
  /\ Len(engine) = 2
  /\ engine[1].subId # engine[2].subId
  /\ \A i \in 1..2 : engine[i].unsubs = 1 /\ ~engine[i].active
  /\ ended = {}

\* the connection has closed and no reaction of it is pending or can still run
Quiescent ==
  /\ closeHandled
  /\ microtasks = <<>>
  /\ \/ starts = EmptyBag
     \/ /\ initPromise.state \in {"pending", "rejected"}
        /\ \A r \in BagToSet(starts) : r.pc = "waitInit"

\* C7: once the connection has closed and its reactions have finished, every
\* handle the engine returned has been unsubscribed exactly once.
C7_EveryHandleUnsubscribedOnce ==
  Quiescent => \A i \in 1..Len(engine) : engine[i].unsubs = 1 /\ ~engine[i].active

\* C8: every id present in the registry maps to a handle the engine returned
\* and that is still active (not unsubscribed).
C8_RegistryHandlesActive ==
  \A id \in Keys(connectionSubscriptions) :
    /\ connectionSubscriptions[id] \in Handles
    /\ engine[Ix(connectionSubscriptions[id])].active
    /\ engine[Ix(connectionSubscriptions[id])].unsubs = 0
    /\ engine[Ix(connectionSubscriptions[id])].subId = id

\* C8 witness: an entry is registered after another handle of the connection
\* was unsubscribed and removed
C8_Witness ==
  /\ Keys(connectionSubscriptions) # {}
  /\ \E i \in 1..Len(engine) : ~engine[i].active

\* C9: once the reaction of a SUBSCRIPTION_END for an id has run, and as long
\* as no later SUBSCRIPTION_START for that id arrives, no subscription-data with
\* that id is sent.
C9_NoDataAfterEnd ==
  [][ \A id \in ended :
        CountFor(outbox', "subscription_data", id)
          = CountFor(outbox, "subscription_data", id) ]_vars

\* C10: every frame that failed to decode has been answered, in its own
\* handler, by a subscription-error with null id carrying the parse error text;
\* handling it changes nothing but the outbox and the frame count: the connection
\* stays open, the registry, the handshake state and the queued reactions are as
\* before, so later frames are dispatched as usual.
C10_Answered ==
  /\ CopiesIn(ParseFail, outbox) = received.malformed
  /\ \A m \in BagToSet(outbox) :
        (m.type = "subscription_fail" /\ m.id = NoId /\ m.payload # "Invalid message type!")
          => m = ParseFail

C10_DecodeFailure ==
  /\ []C10_Answered
  /\ [][ received'.malformed # received.malformed
           => /\ readyState = "OPEN" /\ readyState' = "OPEN"
              /\ CopiesIn(ParseFail, outbox') = CopiesIn(ParseFail, outbox) + 1
              /\ UNCHANGED <<accepted, keepAliveTimer, hookFailures, closeCode,
                             initPromise, initWaiters, microtasks, connectionSubscriptions, starts, engine,
                             flushCallbacks, closeTimers, calls, closeHandled,
                             disconnectSaw, ended>> ]_vars

\* C10 witness: after a decode failure was answered, with the handshake already
\* acknowledged, a SUBSCRIPTION_START frame has arrived and its reaction is about
\* to run (without onConnect the acknowledgement precedes the reactions of
\* every later frame)
C10_Witness ==
  /\ ~options.onConnect
  /\ received.malformed > 0
  /\ CopiesIn(ParseFail, outbox) > 0
  /\ CountIn(outbox, "init_success") > 0
  /\ microtasks # <<>>
  /\ Head(microtasks).kind = "start"

\* the answer to a rejection of onSubscribe for id
HookFail(id) == Msg("subscription_fail", id, "hook error message")

\* C11: every rejection of onSubscribe for a start is answered, in the step
\* that handles it, by one subscription-error with the start's id carrying the
\* rejection's message; that step makes no subscribe call, installs nothing and
\* ends the start, and a subscription-success is only ever sent by completing a
\* start whose subscribe call was made, so none is sent for the rejected start.
C11_Answered ==
  \A id \in SubIds :
    CopiesIn(HookFail(id), outbox) = CopiesIn([id |-> id, outcome |-> "reject"], hookFailures)

C11_HookRejection ==
  /\ []C11_Answered
  /\ [][ \A id \in SubIds :
           CopiesIn([id |-> id, outcome |-> "reject"], hookFailures')
              > CopiesIn([id |-> id, outcome |-> "reject"], hookFailures)
           => /\ outbox' = Send(outbox, HookFail(id))
              /\ calls'.subscribe = calls.subscribe
              /\ connectionSubscriptions' = connectionSubscriptions
              /\ engine' = engine
              /\ BagIn(At(id, "waitHook"), starts)
              /\ starts' = Finish(starts, id, "waitHook") ]_vars
  /\ [][ \A id \in SubIds :
           CountFor(outbox', "subscription_success", id)
              > CountFor(outbox, "subscription_success", id)
           => /\ BagIn(At(id, "waitSubscribe"), starts)
              /\ starts' = Finish(starts, id, "waitSubscribe") ]_vars

\* C11 witness: the hook rejected the start for one id, which got its error and
\* no success, while the start for another id went through
C11_Witness ==
  \E id, other \in SubIds :
    /\ id # other
    /\ BagIn([id |-> id, outcome |-> "reject"], hookFailures)
    /\ BagIn(HookFail(id), outbox)
    /\ CountFor(outbox, "subscription_success", id) = 0
    /\ connectionSubscriptions[id] = Undefined
    /\ CountFor(outbox, "subscription_success", other) = 1

\* C12: without keepAlive no timer exists and no keepalive message is ever
\* sent; with it, every tick of the timer sends exactly one keepalive message
\* when the connection is open and otherwise sends nothing and cancels the
\* timer; keepalive messages are sent by ticks on an open connection only, and
\* a cancelled timer never fires again.
C12_NoTimer ==
  (~options.keepAlive \/ accepted # "yes") =>
    /\ keepAliveTimer = [state |-> "none", ticks |-> 0]
    /\ CopiesIn(KeepAlive, outbox) = 0

C12_KeepAlive ==
  /\ []C12_NoTimer
  /\ [][ keepAliveTimer'.ticks # keepAliveTimer.ticks
           => /\ keepAliveTimer'.ticks = keepAliveTimer.ticks + 1
              /\ keepAliveTimer.state = "armed"
              /\ IF readyState = "OPEN"
                 THEN /\ outbox' = Send(outbox, KeepAlive)
                      /\ keepAliveTimer'.state = "armed"
                 ELSE /\ outbox' = outbox
                      /\ keepAliveTimer'.state = "cleared" ]_vars
  /\ [][ CopiesIn(KeepAlive, outbox') # CopiesIn(KeepAlive, outbox)
           => /\ keepAliveTimer'.ticks = keepAliveTimer.ticks + 1
              /\ readyState = "OPEN" /\ ~closeHandled ]_vars
  /\ [][ keepAliveTimer.state = "cleared" => keepAliveTimer' = keepAliveTimer ]_vars

\* C12 witness: the timer sent keepalive messages while the connection was
\* open, and its first tick after the close cancelled it
C12_Witness ==
  /\ options.keepAlive
  /\ closeHandled
  /\ keepAliveTimer.state = "cleared"
  /\ CopiesIn(KeepAlive, outbox) = MaxTicks
  /\ keepAliveTimer.ticks = MaxTicks + 1

\* the answer to a frame of unrecognized type that carries id
InvalidTypeFail(id) == Msg("subscription_fail", id, "Invalid message type!")

\* C13: every frame of unrecognized type has been answered by a
\* subscription-error citing the invalid type and carrying the frame's id; the
\* answer is sent in the handler of the frame itself, whatever the state of the
\* handshake, and that handler changes nothing else: the connection stays open,
\* the registry, the handshake state and the queued reactions are as before.
C13_Answered ==
  \A id \in SubIds \cup {NoId} :
    CopiesIn(InvalidTypeFail(id), outbox) = CopiesIn(id, received.unknown)

C13_InvalidType ==
  /\ []C13_Answered
  /\ [][ \A id \in SubIds \cup {NoId} :
           CopiesIn(id, received'.unknown) # CopiesIn(id, received.unknown)
           => /\ readyState = "OPEN" /\ readyState' = "OPEN"
              /\ outbox' = Send(outbox, InvalidTypeFail(id))
              /\ UNCHANGED <<accepted, keepAliveTimer, hookFailures, closeCode,
                             initPromise, initWaiters, microtasks,
                             connectionSubscriptions, starts, engine,
                             flushCallbacks, closeTimers, calls, closeHandled,
                             disconnectSaw, ended>> ]_vars

\* C13 witness: before any INIT arrived, a frame of unrecognized type with an
\* id and one without were answered, each with its own id
C13_Witness ==
  /\ initPromise.state = "pending"
  /\ readyState = "OPEN"
  /\ CopiesIn(NoId, received.unknown) = 1
  /\ BagIn(InvalidTypeFail(NoId), outbox)
  /\ \E id \in SubIds :
        /\ CopiesIn(id, received.unknown) = 1
        /\ BagIn(InvalidTypeFail(id), outbox)

\* C14: onConnect is invoked at most once on a connection, by the INIT frame
\* that finds the handshake not yet begun, and once the handshake's value has
\* settled no later INIT changes it.
C14_ConnectHookOnce ==
  /\ [](calls.onConnect <= 1)
  /\ [][ calls'.onConnect # calls.onConnect => initPromise.state = "pending" ]_vars
  /\ [][ initPromise.state \in {"fulfilled", "rejected"}
           => initPromise' = initPromise ]_vars

\* C14 is violated by a second INIT: line 152 calls onConnect for every INIT
\* frame, although only the first call's promise resolves initPromise.

\* C15: once the 'close' handler of the connection has run, no step makes an
\* engine subscribe call or installs a handle, and the registry stays empty,
\* also for the starts that were waiting on the handshake, on onSubscribe or on
\* subscribe when the connection closed.
C15_NothingAfterClose ==
  [][ closeHandled
      => /\ calls'.subscribe = calls.subscribe
         /\ connectionSubscriptions' = connectionSubscriptions
         /\ Keys(connectionSubscriptions') = {} ]_vars

\* C15 is violated by the reactions that are pending at the close: nothing in
\* lines 183-234 looks at the state of the connection.

\* handle h is unsubscribed in this step
UnsubscribedNow(h) == engine'[Ix(h)].unsubs = engine[Ix(h)].unsubs + 1

\* C16: the reaction of a SUBSCRIPTION_END for an id that runs while the
\* subscribe call of a start for that id is pending makes no unsubscribe call
\* and changes neither the registry nor the engine; the handle of a subscribe
\* that completes for an ended id is installed under that id, and as long as no
\* later start for the id arrives it stays registered and active unless the
\* step unsubscribes it (the close handler or a later end).
C16_EndWhileSubscribePending ==
  /\ [][ (/\ microtasks # <<>>
          /\ Head(microtasks).kind = "end"
          /\ BagIn(At(Head(microtasks).id, "waitSubscribe"), starts))
         => /\ engine' = engine
            /\ connectionSubscriptions' = connectionSubscriptions ]_vars
  /\ [][ \A id \in ended :
           /\ (Len(engine') > Len(engine)
                  /\ CopiesIn(At(id, "waitSubscribe"), starts')
                        < CopiesIn(At(id, "waitSubscribe"), starts))
                 => /\ connectionSubscriptions'[id] = FirstHandle + Len(engine)
                    /\ engine'[Len(engine')].active
           /\ (connectionSubscriptions[id] # Undefined /\ id \in ended')
                 => \/ /\ connectionSubscriptions'[id] = connectionSubscriptions[id]
                       /\ engine'[Ix(connectionSubscriptions[id])].active
                    \/ UnsubscribedNow(connectionSubscriptions[id]) ]_vars

\* C16 is violated when two starts for the id are in flight: the end unsubscribes
\* the handle one of them installed while the subscribe of the other is pending,
\* and a handle installed for the ended id is overwritten, still active, by the
\* install of the other start.

\* results of onSubscribe for id that are not an object
NotObject(id) ==
  {[id |-> id, outcome |-> "nonobject"], [id |-> id, outcome |-> "null"]}

\* C17: every result of onSubscribe that is not an object (a value whose typeof
\* is not 'object', or null) is reported, in the step that handles it, by a
\* subscription-error with the start's id; that step makes no subscribe call,
\* installs nothing, sends no subscription-success and ends the start.
C17_Reported ==
  \A id \in SubIds :
    /\ CopiesIn(Msg("subscription_fail", id, InvalidParams), outbox)
          >= CopiesIn([id |-> id, outcome |-> "nonobject"], hookFailures)
    /\ CopiesIn(Msg("subscription_fail", id, "type error message"), outbox)
          >= CopiesIn([id |-> id, outcome |-> "null"], hookFailures)

C17_NonObjectParams ==
  /\ []C17_Reported
  /\ [][ \A id \in SubIds :
           SumCopies(hookFailures', NotObject(id)) > SumCopies(hookFailures, NotObject(id))
           => /\ CountFor(outbox', "subscription_fail", id)
                    > CountFor(outbox, "subscription_fail", id)
              /\ CountIn(outbox', "subscription_success")
                    = CountIn(outbox, "subscription_success")
              /\ calls'.subscribe = calls.subscribe
              /\ connectionSubscriptions' = connectionSubscriptions
              /\ engine' = engine
              /\ BagIn(At(id, "waitHook"), starts)
              /\ starts' = Finish(starts, id, "waitHook") ]_vars

\* C17 witness: onSubscribe returned a non-object for a start, which was
\* reported and installed nothing
C17_Witness ==
  \E id \in SubIds :
    /\ BagIn([id |-> id, outcome |-> "nonobject"], hookFailures)
    /\ BagIn(Msg("subscription_fail", id, InvalidParams), outbox)
    /\ CountFor(outbox, "subscription_success", id) = 0
    /\ connectionSubscriptions[id] = Undefined
    /\ calls.subscribe = 0
    /\ starts = EmptyBag

\* the reactions of SUBSCRIPTION_START and SUBSCRIPTION_END frames that have
\* not begun, in the order in which they will run
PendingOf(queue, waiters) ==
  SelectSeq(queue \o waiters, LAMBDA t : t.kind \in {"start", "end"})

\* C18: the reactions of start and end frames that have not begun form a queue
\* in arrival order: a frame's reaction joins it at the tail when the frame
\* arrives, also before the handshake resolves, and the only reaction that
\* begins is the one at its head, i.e. the oldest (a rejected handshake discards
\* them all); so the registry lookup of an end never runs before the handler of
\* an earlier start has begun.
C18_ArrivalOrder ==
  [][ LET before == PendingOf(microtasks, initWaiters)
          after == PendingOf(microtasks', initWaiters')
      IN \/ after = before
         \/ /\ received'.total = received.total + 1
            /\ Len(after) = Len(before) + 1
            /\ SubSeq(after, 1, Len(before)) = before
         \/ /\ before # <<>>
            /\ after = Tail(before)
            /\ microtasks # <<>> /\ Head(microtasks) = Head(before)
            /\ IF Head(before).kind = "start"
               THEN CopiesIn(At(Head(before).id, "waitInit"), starts')
                      = CopiesIn(At(Head(before).id, "waitInit"), starts) - 1
               ELSE Head(before).id \in ended' /\ starts' = starts
         \/ /\ initPromise'.state = "rejected"
            /\ initPromise.state = "locked"
            /\ after = <<>> ]_vars

\* C18 witness: a start and a later end for the same id waited together on the
\* handshake; the handler of the start has begun (its continuation is queued
\* behind the end) and the end is the next reaction to run
C18_Witness ==
  \E id \in SubIds :
    /\ calls.onConnect = 1
    /\ microtasks = <<Task("end", id), Task("params", id)>>
    /\ BagIn(At(id, "params"), starts)
    /\ connectionSubscriptions[id] = Undefined

\* number of responses (subscription-success or start-related
\* subscription-error) sent with id
Responses(box, id) ==
  SumCopies(box, {m \in BagToSet(box) :
                    /\ m.id = id
                    /\ \/ m.type = "subscription_success"
                       \/ m.type = "subscription_fail" /\ m.payload \in StartFailTexts})

\* number of starts for id whose promisedParams chain (lines 206-242) is under way
Chains(bag, id) ==
  CopiesIn(At(id, "params"), bag) + CopiesIn(At(id, "waitHook"), bag)
    + CopiesIn(At(id, "waitSubscribe"), bag)

\* C19: the step in which the setup of a start ends (success, hook rejection,
\* non-object hook result or engine rejection) sends exactly one response with
\* the start's id, and no other step sends a response.
C19_ExactlyOneResponse ==
  [][ \A id \in SubIds :
        Responses(outbox', id) - Responses(outbox, id)
          = IF Chains(starts', id) < Chains(starts, id) THEN 1 ELSE 0 ]_vars

\* C19 is violated by a non-object result of onSubscribe, reported at line 209
\* and again by the catch at line 239.

\* the setup of a start for id ends in failure in this step
FailsNow(id) ==
  /\ Chains(starts', id) < Chains(starts, id)
  /\ CountFor(outbox', "subscription_fail", id) > CountFor(outbox, "subscription_fail", id)

\* C20: the handler of a start for an id that has a registry entry unsubscribes
\* and removes that handle in its own step, when neither the result of
\* onSubscribe nor the outcome of subscribe is known (no subscribe call has been
\* made for it); the step in which a start fails changes neither the registry
\* nor the engine, and an unsubscribed handle is never active or registered
\* again: the failed start leaves the id without entry and the prior
\* subscription is not restored.
C20_ReplaceIsEager ==
  /\ [][ (/\ microtasks # <<>>
          /\ Head(microtasks).kind = "start"
          /\ Proceeds(Head(microtasks).id)
          /\ connectionSubscriptions[Head(microtasks).id] # Undefined)
         => /\ UnsubscribedNow(connectionSubscriptions[Head(microtasks).id])
            /\ connectionSubscriptions'[Head(microtasks).id] = Undefined
            /\ calls'.subscribe = calls.subscribe
            /\ hookFailures' = hookFailures /\ outbox' = outbox ]_vars
  /\ [][ \A id \in SubIds :
           FailsNow(id) => /\ connectionSubscriptions' = connectionSubscriptions
                           /\ engine' = engine ]_vars
  /\ [][ \A i \in 1..Len(engine) :
           ~engine[i].active
             => /\ ~engine'[i].active
                /\ \A id \in SubIds : connectionSubscriptions'[id] # FirstHandle + i - 1 ]_vars

\* C20 is violated for the handle 0, which the test of line 201 takes for no
\* entry: the start leaves it active and registered, also when it then fails.

====
